---- MODULE Spec2Model ----
(***************************************************************************)
(* Model of src/wallet.js: the Wallet class (key derivation from a         *)
(* mnemonic, a raw seed or a private key) and the WalletFactory singleton; *)
(* and of src/spl.js: the connection and transaction methods of Spl, its   *)
(* key generation and memo helpers, and its asynchronous token-account and *)
(* NFT methods, each a call record resumed once per await.                 *)
(*                                                                         *)
(* Cluster names, URLs and method names are TLA+ strings; other            *)
(* strings are sequences of character codes, byte arrays are sequences of  *)
(* 0..255, and a nullable JavaScript value is a set: {} is null and {v} is *)
(* the value v.                                                            *)
(*                                                                         *)
(* The cryptographic primitives of the libraries the code calls (PBKDF2,   *)
(* HMAC-SHA512, ed25519) are modelled as collision-free functions with the *)
(* libraries' output sizes and the libraries' argument checks: a digest is *)
(* a length byte, the absorbed input, and zero padding.                    *)
(***************************************************************************)
EXTENDS Integers, Sequences, FiniteSets, TLC

\* ------------------------------------------------------------------------
\* Nullable values
\* ------------------------------------------------------------------------
None == {}

Some(v) == {v}

Get(o) == CHOOSE v \in o : TRUE

\* ------------------------------------------------------------------------
\* Characters
\* ------------------------------------------------------------------------
\* " " and "\t", the whitespace the model's inputs use
WhiteSpace == {32, 9}

Space == <<32>>

Digit(n) == 48 + n

IsSpace(c) == c \in WhiteSpace

IsDigit(c) == c >= Digit(0) /\ c <= Digit(9)

\* "m", "/" and "'" of a derivation path
PathM == <<109>>

PathSlash == <<47>>

PathQuote == <<39>>

\* ------------------------------------------------------------------------
\* Sizes fixed by the libraries
\* ------------------------------------------------------------------------
SeedBytes == 32

PublicKeyBytes == 32

SecretKeyBytes == 64

Bip39SeedBytes == 64

\* ------------------------------------------------------------------------
\* Byte arrays and digests
\* ------------------------------------------------------------------------
Zeros(n) == [i \in 1..n |-> 0]

\* A digest of n bytes over data: length byte, data, zero padding
Digest(data, n) ==
  LET d == IF Len(data) > n - 1 THEN SubSeq(data, 1, n - 1) ELSE data
  IN  <<Len(d)>> \o d \o Zeros(n - 1 - Len(d))

\* The data a digest absorbed
Absorbed(digest) == SubSeq(digest, 2, digest[1] + 1)

\* Buffer.from(bytes).toString("hex"): two hex digits per byte
ToHex(bytes) ==
  [i \in 1..(2 * Len(bytes)) |->
     IF i % 2 = 1 THEN bytes[(i + 1) \div 2] \div 16 ELSE bytes[i \div 2] % 16]

\* Buffer.from(hex, "hex")
FromHex(hex) ==
  [i \in 1..(Len(hex) \div 2) |-> hex[2 * i - 1] * 16 + hex[2 * i]]

\* ------------------------------------------------------------------------
\* String.prototype.trim / split(/\s+/g) / join(" ")
\* ------------------------------------------------------------------------
RECURSIVE TrimStart(_)
TrimStart(s) ==
  IF s = <<>> THEN <<>>
  ELSE IF IsSpace(Head(s)) THEN TrimStart(Tail(s)) ELSE s

RECURSIVE TrimEnd(_)
TrimEnd(s) ==
  IF s = <<>> THEN <<>>
  ELSE IF IsSpace(s[Len(s)]) THEN TrimEnd(SubSeq(s, 1, Len(s) - 1)) ELSE s

\* a trim that removes one whitespace character at each end at most
Trim_One(s) ==
  LET t == IF s # <<>> /\ IsSpace(Head(s)) THEN Tail(s) ELSE s
  IN  IF t # <<>> /\ IsSpace(t[Len(t)]) THEN SubSeq(t, 1, Len(t) - 1) ELSE t

Trim(s) == TrimEnd(TrimStart(s))

\* s.split(/\s+/g).join(" "): every run of whitespace becomes one space
RECURSIVE SplitJoin(_)
SplitJoin(s) ==
  IF s = <<>> THEN <<>>
  ELSE IF IsSpace(Head(s))
       THEN Space \o SplitJoin(TrimStart(s))
       ELSE <<Head(s)>> \o SplitJoin(Tail(s))

\* a normalization that trims and leaves the inner whitespace as it is
_normalizeMnemonic_TrimOnly(mnemonic) == Trim(mnemonic)

_normalizeMnemonic(mnemonic) == SplitJoin(Trim(mnemonic))

\* ------------------------------------------------------------------------
\* bip39
\* ------------------------------------------------------------------------
\* The wordlist is {"a", "b"}; a phrase passes the checksum when it is two
\* different words of the wordlist separated by one space.
ValidMnemonics == { <<97, 32, 98>>, <<98, 32, 97>> }

validateMnemonic(mnemonic) == mnemonic \in ValidMnemonics

\* a salt that leaves the password out
Salt_NoPassword(password) == <<109, 110, 101, 109, 111, 110, 105, 99>>

\* "mnemonic" + (password || "")
Salt(password) ==
  <<109, 110, 101, 109, 111, 110, 105, 99>>
    \o (IF password = None THEN <<>> ELSE Get(password))

\* PBKDF2-HMAC-SHA512 of the phrase with the salt, 64 bytes
mnemonicToSeedSync(mnemonic, password) ==
  Digest(<<Len(mnemonic)>> \o mnemonic \o Salt(password), Bip39SeedBytes)

\* _mnemonicToSeedHex without the validateMnemonic guard
_mnemonicToSeedHex_Unchecked(mnemonic, pass) ==
  Some(ToHex(mnemonicToSeedSync(mnemonic, pass)))

_mnemonicToSeedHex(mnemonic, pass) ==
  IF ~validateMnemonic(mnemonic)
  THEN None
  ELSE Some(ToHex(mnemonicToSeedSync(mnemonic, pass)))

\* ------------------------------------------------------------------------
\* ed25519-hd-key
\* ------------------------------------------------------------------------
RECURSIVE TakeDigits(_)
TakeDigits(s) ==
  IF s = <<>> \/ ~IsDigit(Head(s)) THEN <<>>
  ELSE <<Head(s)>> \o TakeDigits(Tail(s))

\* (\/[0-9]+')+ against the rest of the path after "m"
RECURSIVE MatchesHardenedSegments(_)
MatchesHardenedSegments(s) ==
  /\ Len(s) >= 3
  /\ <<Head(s)>> = PathSlash
  /\ LET ds   == TakeDigits(Tail(s))
         rest == SubSeq(s, Len(ds) + 2, Len(s))
     IN  /\ ds # <<>>
         /\ rest # <<>>
         /\ <<Head(rest)>> = PathQuote
         /\ \/ Tail(rest) = <<>>
            \/ MatchesHardenedSegments(Tail(rest))

\* pathRegex = ^m(\/[0-9]+')+$
isValidPath(path) ==
  /\ path # <<>>
  /\ <<Head(path)>> = PathM
  /\ MatchesHardenedSegments(Tail(path))

RECURSIVE ParseInt(_)
ParseInt(ds) ==
  IF ds = <<>> THEN 0
  ELSE ParseInt(SubSeq(ds, 1, Len(ds) - 1)) * 10 + (ds[Len(ds)] - Digit(0))

\* path.split("/").slice(1).map(replaceDerive).map(parseInt), on a valid path
RECURSIVE Segments(_)
Segments(s) ==
  IF s = <<>> THEN <<>>
  ELSE LET ds == TakeDigits(Tail(s))
       IN  <<ParseInt(ds)>> \o Segments(SubSeq(s, Len(ds) + 3, Len(s)))

\* ser32(index + HARDENED_OFFSET)
Ser32Hardened(index) ==
  << 128 + (index \div 16777216), (index \div 65536) % 256,
     (index \div 256) % 256, index % 256 >>

\* HMAC-SHA512 keyed "ed25519 seed" over the seed; the key half
getMasterKeyFromSeed(seedHex) ==
  Digest(Absorbed(FromHex(seedHex)), SeedBytes)

\* HMAC-SHA512 over 0x00 || parent key || ser32(index); the key half
CKDPriv(key, index) ==
  Digest(Absorbed(key) \o Ser32Hardened(index), SeedBytes)

RECURSIVE DeriveAlong(_, _)
DeriveAlong(key, segments) ==
  IF segments = <<>> THEN key
  ELSE DeriveAlong(CKDPriv(key, Head(segments)), Tail(segments))

\* derivePath throws on an invalid path, and on a seed that is no hex string
derivePathThrows(path, seedHex) == ~isValidPath(path) \/ seedHex = None

\* derivePath(path, seedHex).key
derivePath(path, seedHex) ==
  DeriveAlong(getMasterKeyFromSeed(Get(seedHex)), Segments(Tail(path)))

\* ------------------------------------------------------------------------
\* tweetnacl and solana.Keypair
\* ------------------------------------------------------------------------
\* the ed25519 public key of a 32-byte seed
Ed25519PublicKey(seed) ==
  [i \in 1..PublicKeyBytes |-> (seed[SeedBytes + 1 - i] + 1) % 256]

\* nacl.sign.keyPair.fromSeed throws "bad seed size"
fromSeedThrows(seed) == Len(seed) # SeedBytes

\* nacl.sign.keyPair.fromSeed(seed).secretKey
fromSeedSecretKey(seed) == seed \o Ed25519PublicKey(seed)

\* Keypair.fromSecretKey throws on a wrong size and on a public half that
\* is not the public key of the secret half
fromSecretKeyThrows(secretKey) ==
  \/ Len(secretKey) # SecretKeyBytes
  \/ SubSeq(secretKey, SeedBytes + 1, SecretKeyBytes)
       # Ed25519PublicKey(SubSeq(secretKey, 1, SeedBytes))

\* a keypair rebuilt from the public half taken as the seed
fromSecretKey_FromPublicHalf(secretKey) ==
  LET seed == SubSeq(secretKey, SeedBytes + 1, SecretKeyBytes)
  IN  [ publicKey |-> Ed25519PublicKey(seed),
        secretKey |-> seed \o Ed25519PublicKey(seed) ]

\* Keypair.fromSecretKey(secretKey)
fromSecretKey(secretKey) ==
  [ publicKey |-> SubSeq(secretKey, SeedBytes + 1, SecretKeyBytes),
    secretKey |-> secretKey ]

\* ------------------------------------------------------------------------
\* Derivation paths
\* ------------------------------------------------------------------------
Digits(ds) == [i \in 1..Len(ds) |-> Digit(ds[i])]

Hardened(ds) == PathSlash \o Digits(ds) \o PathQuote

Plain(ds) == PathSlash \o Digits(ds)

\* m/501'/0'/0/0
PathDeprecated ==
  PathM \o Hardened(<<5, 0, 1>>) \o Hardened(<<0>>) \o Plain(<<0>>) \o Plain(<<0>>)

\* m/44'/501'/0'
PathBip44 == PathM \o Hardened(<<4, 4>>) \o Hardened(<<5, 0, 1>>) \o Hardened(<<0>>)

\* m/44'/501'/0'/0'
PathBip44Change == PathBip44 \o Hardened(<<0>>)

\* ------------------------------------------------------------------------
\* class Wallet
\* ------------------------------------------------------------------------
\* new Wallet()
NewWallet ==
  [ _derivedPath     |-> None,
    _mnemonic        |-> None,
    _seed            |-> None,
    _seedHex         |-> None,
    _keypair         |-> None,
    _derivationPaths |-> [ deprecated  |-> PathDeprecated,
                           bip44       |-> PathBip44,
                           bip44Change |-> PathBip44Change ] ]

\* a default that prefers the path the instance used before
PathOrDefault_Previous(self, derivedPath) ==
  IF derivedPath = None \/ derivedPath = Some(<<>>)
  THEN IF self._derivedPath # None
       THEN Get(self._derivedPath)
       ELSE self._derivationPaths.bip44Change
  ELSE Get(derivedPath)

\* derivedPath || this._derivationPaths.bip44Change
PathOrDefault(self, derivedPath) ==
  IF derivedPath = None \/ derivedPath = Some(<<>>)
  THEN self._derivationPaths.bip44Change
  ELSE Get(derivedPath)

\* solana.Keypair.fromSecretKey(nacl.sign.keyPair.fromSeed(seed).secretKey)
KeypairFromSeed(seed) == fromSecretKey(fromSeedSecretKey(seed))

\* a derivation that keeps the passphrase in the place of the path
DeriveFromMnemonic_KeepsPass(self, mnemonic, pass, derivedPath) ==
  LET s1 == [self EXCEPT !._derivedPath =
               IF pass # None THEN pass ELSE Some(PathOrDefault(self, derivedPath))]
      s2 == [s1 EXCEPT !._mnemonic = Some(mnemonic)]
      s3 == [s2 EXCEPT !._seedHex = _mnemonicToSeedHex(mnemonic, pass)]
  IN  IF derivePathThrows(Get(s3._derivedPath), s3._seedHex)
      THEN [self |-> s3, threw |-> TRUE]
      ELSE LET s4 == [s3 EXCEPT !._seed =
                        Some(derivePath(Get(s3._derivedPath), s3._seedHex))]
           IN  [self  |-> [s4 EXCEPT !._keypair = Some(KeypairFromSeed(Get(s4._seed)))],
                threw |-> FALSE]

\* The statements create and restoreFromMnemonic share after the mnemonic
\* is known: seed hex, derived seed, keypair. An exception leaves the
\* assignments made before it.
DeriveFromMnemonic(self, mnemonic, pass, derivedPath) ==
  LET s1 == [self EXCEPT !._derivedPath = Some(PathOrDefault(self, derivedPath))]
      s2 == [s1 EXCEPT !._mnemonic = Some(mnemonic)]
      s3 == [s2 EXCEPT !._seedHex = _mnemonicToSeedHex(mnemonic, pass)]
  IN  IF derivePathThrows(Get(s3._derivedPath), s3._seedHex)
      THEN [self |-> s3, threw |-> TRUE]
      ELSE LET s4 == [s3 EXCEPT !._seed =
                        Some(derivePath(Get(s3._derivedPath), s3._seedHex))]
           IN  [self  |-> [s4 EXCEPT !._keypair = Some(KeypairFromSeed(Get(s4._seed)))],
                threw |-> FALSE]

\* create that always derives along the default path
create_DefaultPathOnly(self, generated, pass, derivedPath) ==
  DeriveFromMnemonic(self, generated, pass, None)

\* create(pass, derivedPath); generated is what _generateMnemonic returned
create(self, generated, pass, derivedPath) ==
  DeriveFromMnemonic(self, generated, pass, derivedPath)

\* restoreFromMnemonic that keeps the identity of an instance which already
\* holds the phrase, whatever the passphrase and the path
restoreFromMnemonic_Cached(self, mnemonic, pass, derivedPath) ==
  IF self._keypair # None /\ self._mnemonic = Some(_normalizeMnemonic(mnemonic))
  THEN [self |-> self, threw |-> FALSE]
  ELSE DeriveFromMnemonic(self, _normalizeMnemonic(mnemonic), pass, derivedPath)

restoreFromMnemonic(self, mnemonic, pass, derivedPath) ==
  DeriveFromMnemonic(self, _normalizeMnemonic(mnemonic), pass, derivedPath)

\* restoreFromSeed that leaves the phrase and the path of an earlier identity
restoreFromSeed_KeepsMnemonic(self, seed) ==
  LET s1 == [self EXCEPT !._seed = Some(seed), !._seedHex = Some(ToHex(seed))]
  IN  IF fromSeedThrows(seed)
      THEN [self |-> s1, threw |-> TRUE]
      ELSE [self |-> [s1 EXCEPT !._keypair = Some(KeypairFromSeed(seed))],
            threw |-> FALSE]

\* restoreFromSeed that cuts or zero-pads the seed to the expected size
restoreFromSeed_Fits(self, seed) ==
  LET s1 == [self EXCEPT !._derivedPath = None, !._mnemonic = None,
                         !._seed = Some(seed), !._seedHex = Some(ToHex(seed))]
      fit == [i \in 1..SeedBytes |-> IF i <= Len(seed) THEN seed[i] ELSE 0]
  IN  [self |-> [s1 EXCEPT !._keypair = Some(KeypairFromSeed(fit))],
       threw |-> FALSE]

restoreFromSeed(self, seed) ==
  LET s1 == [self EXCEPT !._derivedPath = None, !._mnemonic = None,
                         !._seed = Some(seed), !._seedHex = Some(ToHex(seed))]
  IN  IF fromSeedThrows(seed)
      THEN [self |-> s1, threw |-> TRUE]
      ELSE [self |-> [s1 EXCEPT !._keypair = Some(KeypairFromSeed(seed))],
            threw |-> FALSE]

\* restoreFromPrivateKey that drops the old keypair with the other fields
restoreFromPrivateKey_ClearsKeypair(self, privateKey) ==
  LET s1 == [self EXCEPT !._derivedPath = None, !._mnemonic = None,
                         !._seed = None, !._seedHex = None, !._keypair = None]
  IN  IF fromSecretKeyThrows(privateKey)
      THEN [self |-> s1, threw |-> TRUE]
      ELSE [self |-> [s1 EXCEPT !._keypair = Some(fromSecretKey(privateKey))],
            threw |-> FALSE]

\* restoreFromPrivateKey that leaves the seed of an earlier identity
restoreFromPrivateKey_KeepsSeed(self, privateKey) ==
  LET s1 == [self EXCEPT !._derivedPath = None, !._mnemonic = None]
  IN  IF fromSecretKeyThrows(privateKey)
      THEN [self |-> s1, threw |-> TRUE]
      ELSE [self |-> [s1 EXCEPT !._keypair = Some(fromSecretKey(privateKey))],
            threw |-> FALSE]

restoreFromPrivateKey(self, privateKey) ==
  LET s1 == [self EXCEPT !._derivedPath = None, !._mnemonic = None,
                         !._seed = None, !._seedHex = None]
  IN  IF fromSecretKeyThrows(privateKey)
      THEN [self |-> s1, threw |-> TRUE]
      ELSE [self |-> [s1 EXCEPT !._keypair = Some(fromSecretKey(privateKey))],
            threw |-> FALSE]

\* get privateKey
privateKey(self) ==
  IF self._keypair # None THEN Some(Get(self._keypair).secretKey) ELSE None

\* get publicKey
publicKey(self) ==
  IF self._keypair # None THEN Some(Get(self._keypair).publicKey) ELSE None

\* bs58: the character of a base-58 digit in
\* 123456789ABCDEFGHJKLMNPQRSTUVWXYZabcdefghijkmnopqrstuvwxyz
Base58Char(d) ==
  IF d < 9 THEN 49 + d
  ELSE IF d < 17 THEN 65 + (d - 9)
  ELSE IF d < 22 THEN 74 + (d - 17)
  ELSE IF d < 33 THEN 80 + (d - 22)
  ELSE IF d < 44 THEN 97 + (d - 33)
  ELSE 109 + (d - 44)

\* A big-endian number divided by 58: the quotient's bytes, then the remainder
RECURSIVE DivMod58(_, _)
DivMod58(bytes, carry) ==
  IF bytes = <<>> THEN <<carry>>
  ELSE <<(carry * 256 + Head(bytes)) \div 58>>
         \o DivMod58(Tail(bytes), (carry * 256 + Head(bytes)) % 58)

RECURSIVE StripZeros(_)
StripZeros(bytes) ==
  IF bytes = <<>> \/ Head(bytes) # 0 THEN bytes ELSE StripZeros(Tail(bytes))

\* The base-58 digits of a big-endian number, most significant first
RECURSIVE Base58Digits(_)
Base58Digits(bytes) ==
  IF bytes = <<>> THEN <<>>
  ELSE LET qr == DivMod58(bytes, 0)
       IN  Base58Digits(StripZeros(SubSeq(qr, 1, Len(bytes))))
             \o <<Base58Char(qr[Len(qr)])>>

\* PublicKey.toBase58(): "1" for every leading zero byte, then the digits
toBase58(bytes) ==
  [i \in 1..(Len(bytes) - Len(StripZeros(bytes))) |-> Base58Char(0)]
    \o Base58Digits(StripZeros(bytes))

\* Number.prototype.toString() of a byte
Decimal(b) ==
  IF b < 10 THEN <<Digit(b)>>
  ELSE IF b < 100 THEN <<Digit(b \div 10), Digit(b % 10)>>
  ELSE <<Digit(b \div 100), Digit((b \div 10) % 10), Digit(b % 10)>>

\* Uint8Array.prototype.toString(): the bytes in decimal, joined by ","
RECURSIVE JoinDecimal(_)
JoinDecimal(bytes) ==
  IF bytes = <<>> THEN <<>>
  ELSE IF Len(bytes) = 1 THEN Decimal(bytes[1])
  ELSE Decimal(Head(bytes)) \o <<44>> \o JoinDecimal(Tail(bytes))

\* get publicKeyString
publicKeyString(self) ==
  IF self._keypair # None
  THEN Some(toBase58(Get(self._keypair).publicKey))
  ELSE None

\* get privateKeyString: "[" + secretKey.toString() + "]"
privateKeyString(self) ==
  IF self._keypair # None
  THEN Some(<<91>> \o JoinDecimal(Get(self._keypair).secretKey) \o <<93>>)
  ELSE None

\* get json
json(self) ==
  [ mnemonic   |-> self._mnemonic,
    publicKey  |-> publicKeyString(self),
    bn         |-> publicKey(self),
    privateKey |-> privateKeyString(self) ]

\* ------------------------------------------------------------------------
\* class Spl (src/spl.js)
\* ------------------------------------------------------------------------
\* static _clusters
_clusters == [ dev |-> "devnet", test |-> "testnet", main |-> "mainnet-beta" ]

ClusterNames == {"devnet", "testnet", "mainnet-beta"}

\* static _clusterApiUrls
_clusterApiUrls ==
  [ c \in ClusterNames |->
      IF c = "devnet" THEN "https://api.devnet.solana.com"
      ELSE IF c = "testnet" THEN "https://api.testnet.solana.com"
      ELSE "https://api.mainnet-beta.solana.com" ]

\* new Spl(): the properties the constructor gives the instance. The static
\* fields are properties of the class, not of the instance.
NewSpl ==
  [ _cluster        |-> None,
    _connection     |-> None,
    _authorityTypes |-> [ mint |-> "MintTokens", freeze |-> "FreezeAccount",
                          owner |-> "AccountOwner", close |-> "CloseAccount" ] ]

\* this[name] on an instance: None is undefined. The prototype has accessors
\* only (connection, cluster, clusters, clusterApiUrls), no data property.
InstanceProperty(self, name) ==
  IF name \in DOMAIN self THEN Some(self[name]) ELSE None

\* a value that || replaces by its right operand
Falsy(v) == v = None \/ v = Some("")

\* new solana.Connection(endpoint, "confirmed")
Connection(endpoint) == [ endpoint |-> endpoint, commitment |-> "confirmed" ]

\* connect(cluster = null). A read of a property of undefined throws a
\* TypeError: the statement it is in assigns nothing.
connect(self, cluster) ==
  LET clusters == InstanceProperty(self, "_clusters")
  IN  IF Falsy(cluster) /\ clusters = None
      THEN [self |-> self, threw |-> TRUE]
      ELSE LET s1   == [self EXCEPT !._cluster =
                          IF Falsy(cluster) THEN Some(Get(clusters).dev) ELSE cluster]
               urls == InstanceProperty(s1, "_clusterApiUrls")
           IN  IF urls = None \/ Get(s1._cluster) \notin DOMAIN Get(urls)
               THEN [self |-> s1, threw |-> TRUE]
               ELSE [self  |-> [s1 EXCEPT !._connection =
                                  Some(Connection(Get(urls)[Get(s1._cluster)]))],
                     threw |-> FALSE]

\* get cluster
cluster(self) == self._cluster

\* get connection
connection(self) == self._connection

\* beginTransaction(): new solana.Transaction() with tx._signers_ = []
beginTransaction == [ instructions |-> <<>>, _signers_ |-> <<>> ]

\* SystemProgram.transfer / Token.createTransferInstruction
TransferInstruction(program, from, to) ==
  [ program |-> program, from |-> from, to |-> to ]

\* tx.add(instruction), then the signer pushed when indexOf does not find it
AddTransfer(tx, instruction, signer) ==
  [ instructions |-> Append(tx.instructions, instruction),
    _signers_    |-> IF \E i \in 1..Len(tx._signers_) : tx._signers_[i] = signer
                     THEN tx._signers_
                     ELSE Append(tx._signers_, signer) ]

\* solana.sendAndConfirmTransaction(connection, tx, signers) rejects with a
\* TypeError when connection is null, before anything is sent
sendAndConfirmTransactionRejects(conn) == conn = None

\* this._connection.getParsedAccountInfo / getAccountInfo, the first thing
\* getOrCreateTokenAccount and getTokenInfo need: a TypeError on null
ReadsClusterRejects(self) == self._connection = None

\* String.prototype.startsWith
startsWith(s, prefix) ==
  Len(prefix) <= Len(s) /\ SubSeq(s, 1, Len(prefix)) = prefix

\* generateKeypair(publicKeyPrefix = null); generated is what the calls of
\* Keypair.generate() return, in order. !publicKeyPrefix holds for null and
\* for the empty string. keypair is declared const, so the
\* assignment in the body of the while loop throws a TypeError the first
\* time the loop is entered, after the second Keypair.generate() returned.
generateKeypair(generated, publicKeyPrefix) ==
  IF publicKeyPrefix = None \/ publicKeyPrefix = Some(<<>>)
  THEN [keypair |-> Some(generated[1]), threw |-> FALSE]
  ELSE IF startsWith(toBase58(generated[1].publicKey), Get(publicKeyPrefix))
       THEN [keypair |-> Some(generated[1]), threw |-> FALSE]
       ELSE [keypair |-> None, threw |-> TRUE]

\* new solana.TransactionInstruction({keys, data, programId}) of transferData:
\* the memo program, the keypair's public key as the one signer key
MemoInstruction(keypair, data) ==
  [ program |-> "memo", keys |-> <<keypair>>, data |-> data ]

\* transferData(keypair, data, transferTransaction, format) on tx =
\* transferTransaction || this.beginTransaction(). tx.add appends the
\* instruction; the condition of the next statement reads fromKeypair, a
\* name that neither the method nor the module binds, which throws a
\* ReferenceError: the promise rejects with the instruction added, no
\* signer pushed and nothing sent.
transferData(tx, keypair, data) ==
  [ tx      |-> [tx EXCEPT !.instructions =
                   Append(tx.instructions, MemoInstruction(keypair, data))],
    outcome |-> "rejected",
    sent    |-> FALSE ]

\* spl.Token.getAssociatedTokenAddress(associated program, token program,
\* mint, owner): the one address derived from the pair
getAssociatedTokenAddress(mint, owner) == [ owner |-> owner, mint |-> mint ]

\* accountExists(address): info.value !== null for the account info the
\* cluster returns
accountExists(existing, address) == address \in existing

\* new solana.Transaction().add(createAssociatedTokenAccountInstruction(...,
\* mint, address, owner, payer)) as sendAndConfirmTransaction gets it with
\* the signers [walletKeypair]
CreateAccountTransaction(address, walletKeypair, tokenPublicKey) ==
  [ instructions |-> << [ program |-> "associated-token", account |-> address,
                          owner |-> walletKeypair, mint |-> tokenPublicKey,
                          payer |-> walletKeypair ] >>,
    _signers_    |-> <<walletKeypair>> ]

\* A call of getOrCreateTokenAccount(walletKeypair, tokenPublicKey) that
\* has run up to its first await, the one on getAssociatedTokenAddress.
\* overlap is the set of the calls that were in flight when it was made,
\* existed whether the account of the pair existed then; sent becomes the
\* place of the transaction the call sends among those the cluster is sent.
getOrCreateTokenAccount(walletKeypair, tokenPublicKey, overlap, existed) ==
  [ op |-> "getOrCreateTokenAccount", wallet |-> walletKeypair,
    token |-> tokenPublicKey, pc |-> "address", address |-> None,
    txInfo |-> None, sent |-> 0, overlap |-> overlap, existed |-> existed ]

Settled(call) == call.pc \in {"resolved", "rejected"}

\* getOrCreateTokenAccount resumed at the await it stands at. c is the
\* call, existing the accounts of the cluster and sent the number of
\* transactions the cluster was sent; the result is the call, the
\* transaction it sends if it sends one, and the account the cluster
\* creates if it creates one.
\*   "address": the address is known; accountExists reads
\*     this._connection.getParsedAccountInfo, a TypeError on null
\*   "exists": the account info arrived; return {address, txInfo: null}
\*     when the account exists, else hand the creation transaction to
\*     sendAndConfirmTransaction, which rejects on a null connection
\*   "confirm": the cluster ran the transaction, which fails when the
\*     account exists by now; return {address, txInfo}
ResumeGetOrCreateTokenAccount(self, c, existing, sent) ==
  LET address == getAssociatedTokenAddress(c.token, c.wallet)
      idle    == [ sends |-> None, creates |-> None ]
  IN  CASE c.pc = "address" ->
             idle @@
             [ call |-> IF ReadsClusterRejects(self)
                        THEN [c EXCEPT !.pc = "rejected", !.address = Some(address)]
                        ELSE [c EXCEPT !.pc = "exists", !.address = Some(address)] ]
        [] c.pc = "exists" ->
             IF accountExists(existing, address)
             THEN idle @@ [ call |-> [c EXCEPT !.pc = "resolved", !.txInfo = None] ]
             ELSE IF sendAndConfirmTransactionRejects(self._connection)
             THEN idle @@ [ call |-> [c EXCEPT !.pc = "rejected"] ]
             ELSE [ call    |-> [c EXCEPT !.pc = "confirm", !.sent = sent + 1],
                    sends   |-> Some(CreateAccountTransaction(address, c.wallet, c.token)),
                    creates |-> None ]
        [] c.pc = "confirm" ->
             IF accountExists(existing, address)
             THEN idle @@ [ call |-> [c EXCEPT !.pc = "rejected"] ]
             ELSE [ call    |-> [c EXCEPT !.pc = "resolved", !.txInfo = Some(c.sent)],
                    sends   |-> None,
                    creates |-> Some(address) ]

\* createToken's transaction: SystemProgram.createAccount for the mint and
\* createInitMintInstruction, with the signers [ownerKeypair, tokenKeypair]
CreateMintTransaction(ownerKeypair, tokenKeypair, decimals, hasFreezeAuthority) ==
  [ instructions |->
      << [ program |-> "system", from |-> ownerKeypair, newAccount |-> tokenKeypair ],
         [ program |-> "token", kind |-> "initMint", mint |-> tokenKeypair,
           decimals |-> decimals, mintAuthority |-> ownerKeypair,
           freezeAuthority |-> IF hasFreezeAuthority THEN Some(ownerKeypair) ELSE None ] >>,
    _signers_    |-> <<ownerKeypair, tokenKeypair>> ]

\* mint's transaction: createMintToInstruction of amount * 10^decimals,
\* with the signers [ownerKeypair]
MintToTransaction(tokenPublicKey, receiver, ownerKeypair, amount) ==
  [ instructions |-> << [ program |-> "token", kind |-> "mintTo",
                          mint |-> tokenPublicKey, account |-> receiver,
                          authority |-> ownerKeypair, amount |-> amount ] >>,
    _signers_    |-> <<ownerKeypair>> ]

\* A call of createNft(ownerKeypair, nftKeypair) that has run up to its
\* first await: createToken(ownerKeypair, 0, false, nftKeypair) has made
\* its Token and awaits Token.getMinBalanceRentForExemptMint(connection).
createNft(ownerKeypair, nftKeypair) ==
  [ op |-> "createNft", owner |-> ownerKeypair, nft |-> nftKeypair,
    pc |-> "rent", result |-> None, sent |-> <<>> ]

\* createNft resumed at the await it stands at.
\*   "rent": getMinBalanceRentForExemptMint reads the connection, a
\*     TypeError on null; else createToken sends its transaction
\*   "token": createToken returned {token, txInfo}, of which createNft
\*     takes token and tokenTx: tokenTx is undefined. this.mint(token,
\*     ownerKeypair, 1) runs, taken as one step here: the creation of the
\*     owner's token account when it does not exist, then the mint of
\*     1 * 10^0 units
\*   "mint": mintTx is known. setAuthorityOfTokenAccount(ownerKeypair, null,
\*     this._authorityTypes.mint) is called without await: getKeypair(null)
\*     throws in it, so it sends nothing and authorityTx is a promise that
\*     rejects, with no transaction behind it; createNft returns {token,
\*     tokenTx, mintTx, authorityTx}
ResumeCreateNft(self, c, existing, sent) ==
  LET token   == IF c.nft # None THEN Get(c.nft) ELSE "generated"
      account == getAssociatedTokenAddress(token, c.owner)
      idle    == [ sends |-> <<>>, creates |-> {} ]
  IN  CASE c.pc = "rent" ->
             IF ReadsClusterRejects(self)
             THEN idle @@ [ call |-> [c EXCEPT !.pc = "rejected"] ]
             ELSE [ call    |-> [c EXCEPT !.pc = "token", !.sent = <<sent + 1>>],
                    sends   |-> <<CreateMintTransaction(c.owner, token, 0, FALSE)>>,
                    creates |-> {} ]
        [] c.pc = "token" ->
             LET creation == IF accountExists(existing, account) THEN <<>>
                           ELSE <<CreateAccountTransaction(account, c.owner, token)>>
             IN  [ call    |-> [c EXCEPT !.pc = "mint",
                                         !.sent = Append(@, sent + Len(creation) + 1)],
                   sends   |-> creation \o <<MintToTransaction(token, account, c.owner, 1)>>,
                   creates |-> {account} ]
        [] c.pc = "mint" ->
             idle @@
             [ call |-> [c EXCEPT !.pc = "resolved",
                           !.result = Some([ token       |-> token,
                                             tokenTx     |-> None,
                                             mintTx      |-> Some(c.sent[2]),
                                             authorityTx |-> None ])] ]

\* A call of the first mintAndUploadNft of the file (lines 1368-1430) that
\* has run up to its first await. The statement after the wallet is known
\* calls this.mintNFT(nftOwnerKeypair, response.url, ...), and response is
\* declared by a let further down: the read throws a ReferenceError before
\* mintNFT is entered. With an Arweave wallet supplied nothing is awaited
\* before that statement; without one the call awaits a.wallets.generate().
mintAndUploadNft(nftOwnerKeypair, filePath, arweaveWallet) ==
  [ op |-> "mintAndUploadNft", owner |-> nftOwnerKeypair, file |-> filePath,
    wallet |-> arweaveWallet,
    pc |-> IF arweaveWallet # None THEN "rejected" ELSE "wallet",
    metadata |-> None, upload |-> None, minted |-> None, value |-> None ]

\* The first mintAndUploadNft resumed: the wallet was generated
ResumeMintAndUploadNft(c) ==
  [c EXCEPT !.pc = "rejected", !.wallet = Some("generated")]

\* A call of the second mintAndUploadNft of the file (lines 2983-3046) that
\* has run up to its first await: a.wallets.generate() without an Arweave
\* wallet, a.createTransaction({data: metadata}) with one.
mintAndUploadNftSecond(nftOwnerKeypair, filePath, arweaveWallet) ==
  [ op |-> "mintAndUploadNftSecond", owner |-> nftOwnerKeypair,
    file |-> filePath, wallet |-> arweaveWallet,
    pc |-> IF arweaveWallet # None THEN "create" ELSE "wallet",
    metadata |-> None, upload |-> None, minted |-> None, value |-> None ]

\* a.transactions.post(metadataTransaction): what Arweave is handed
MetadataTransaction(c) ==
  [ data |-> "metadata", contentType |-> "application/json", wallet |-> c.wallet,
    file |-> c.file ]

\* The second mintAndUploadNft resumed at the await it stands at; response
\* is what Arweave answers the post with.
\*   "wallet": the wallet was generated; await a.createTransaction
\*   "create": tag added; await a.transactions.sign
\*   "sign": await a.transactions.post(metadataTransaction)
\*   "post": the response arrived; url and wallet are set on it, and the
\*     next statement reads walletAddress, declared by a const further
\*     down: a ReferenceError, before the status of the response is looked at
ResumeMintAndUploadNftSecond(c, response) ==
  CASE c.pc = "wallet" ->
         [ call  |-> [c EXCEPT !.pc = "create", !.wallet = Some("generated")],
           posts |-> <<>> ]
    [] c.pc = "create" -> [ call |-> [c EXCEPT !.pc = "sign"], posts |-> <<>> ]
    [] c.pc = "sign" ->
         [ call |-> [c EXCEPT !.pc = "post"], posts |-> <<MetadataTransaction(c)>> ]
    [] c.pc = "post" ->
         [ call  |-> [c EXCEPT !.pc = "rejected", !.metadata = Some(response)],
           posts |-> <<>> ]

\* ------------------------------------------------------------------------
\* Inputs
\* ------------------------------------------------------------------------
\* "a b", "b a", " a\tb" (irregular whitespace), "a a" (bad checksum)
MnemonicInputs ==
  { <<97, 32, 98>>, <<98, 32, 97>>, <<32, 97, 9, 98>>, <<97, 32, 97>> }

\* omitted, "" and "pw"
PassInputs == { None, Some(<<>>), Some(<<112, 119>>) }

\* Raw path strings m/44'/501'/k' of further accounts, k in 1..MaxAccount
MaxAccount == 1

AccountPath(k) ==
  PathM \o Hardened(<<4, 4>>) \o Hardened(<<5, 0, 1>>) \o Hardened(<<k>>)

\* omitted, the three named paths, and raw path strings
PathInputs ==
  { None, Some(PathDeprecated), Some(PathBip44), Some(PathBip44Change) }
    \cup { Some(AccountPath(k)) : k \in 1..MaxAccount }

GoodSeed == [i \in 1..SeedBytes |-> 7]

\* a 32-byte seed and a 31-byte one
SeedInputs == { GoodSeed, [i \in 1..(SeedBytes - 1) |-> 7] }

GoodPrivateKey == fromSeedSecretKey([i \in 1..SeedBytes |-> 9])

\* a well-formed key, one a byte short, one whose public half is wrong
PrivateKeyInputs ==
  { GoodPrivateKey,
    SubSeq(GoodPrivateKey, 1, SecretKeyBytes - 1),
    [GoodPrivateKey EXCEPT ![SecretKeyBytes] = 0] }

\* ------------------------------------------------------------------------
\* class WalletFactory: every method runs on a new Wallet()
\* ------------------------------------------------------------------------
\* What the caller of a WalletFactory method gets: None when the call threw
Returned(r) == IF r.threw THEN None ELSE Some(r.self)

WalletFactory_create(generated, pass, derivedPath) ==
  Returned(create(NewWallet, generated, pass, derivedPath))

WalletFactory_restoreFromMnemonic(mnemonic, pass, derivedPath) ==
  Returned(restoreFromMnemonic(NewWallet, mnemonic, pass, derivedPath))

WalletFactory_restoreFromSeed(seed) ==
  Returned(restoreFromSeed(NewWallet, seed))

WalletFactory_restoreFromPrivateKey(key) ==
  Returned(restoreFromPrivateKey(NewWallet, key))

\* ------------------------------------------------------------------------
\* State: one Wallet instance and the calls its holder makes on it
\* ------------------------------------------------------------------------
VARIABLES
  wallet,     \* the fields of a Wallet constructed with new Wallet()
  last,       \* the last call on wallet: its arguments and whether it threw
  before,     \* which fields wallet held when the last call was made
  factory,    \* the fields of the WalletFactory the module exports
  heap,       \* the Wallet objects the factory's callers hold, by reference
  callee,     \* the reference the last call in heap returned or was made on
  spl,        \* the fields of an Spl constructed with new Spl()
  txs,        \* the transactions beginTransaction returned to the caller
  submitted,  \* the transactions sent to the cluster, in the order sent
  splLast,    \* the last call on spl: its arguments and how it ended
  phrase,     \* a phrase handed to _normalizeMnemonic
  normalized, \* what _normalizeMnemonic returned for phrase, and then for its
              \* own result: a sequence of at most two phrases
  calls,      \* the calls of the async methods of spl that await the cluster:
              \* their arguments, where they stand, what they settled with
  accounts,   \* the addresses of the accounts that exist on the cluster
  uploads     \* the transactions posted to Arweave, in the order posted

walletVars == <<wallet, last>>

normalizeVars == <<phrase, normalized>>

heapVars == <<heap, callee>>

splVars == <<spl, txs, submitted, splLast>>

clusterVars == <<calls, accounts, uploads>>

\* The variables the calls on wallet leave alone
nonWalletVars == <<factory, heapVars, splVars, normalizeVars, clusterVars>>

\* The variables _normalizeMnemonic leaves alone
nonNormalizeVars == <<walletVars, before, factory, heapVars, splVars, clusterVars>>

\* The variables the calls on the wallets of heap leave alone
nonHeapVars ==
  <<walletVars, before, factory, splVars, normalizeVars, clusterVars>>

\* The variables the calls on spl leave alone
nonSplVars ==
  <<walletVars, before, factory, heapVars, normalizeVars, clusterVars>>

\* The variables neither spl nor the cluster has a part in
nonClusterVars == <<walletVars, before, factory, heapVars, normalizeVars>>

vars ==
  <<walletVars, before, factory, heapVars, splVars, normalizeVars, clusterVars>>

Call(op, threw, mnemonic, pass, path, bytes) ==
  [ op |-> op, threw |-> threw, mnemonic |-> mnemonic, pass |-> pass,
    path |-> path, bytes |-> bytes ]

NoCall == Call("none", FALSE, None, None, None, None)

\* Which of the identity's fields an instance holds
Held(self) ==
  [ mnemonic |-> self._mnemonic # None,
    seed     |-> self._seed # None,
    keypair  |-> self._keypair # None ]

\* new WalletFactory()
NewWalletFactory ==
  [ _derivationPaths |-> [ deprecated  |-> PathDeprecated,
                           bip44       |-> PathBip44,
                           bip44Change |-> PathBip44Change ] ]

\* A call on spl: the cluster argument of connect or the signing keypair of
\* a transfer; for the transaction
\* methods the index in txs of the transaction supplied (0 for none), how
\* many instructions it had and how many transactions had been sent when
\* the call was made, and the transaction the call made for itself
SplCall(op, arg, outcome, tx, count, sent, made) ==
  [ op |-> op, arg |-> arg, outcome |-> outcome, tx |-> tx, count |-> count,
    sent |-> sent, made |-> made ]

NoSplCall == SplCall("none", None, "returned", 0, 0, 0, None)

\* No call was made in heap yet
NoRef == [id |-> 0, by |-> "none"]

WalletInit ==
  /\ wallet = NewWallet
  /\ last = NoCall
  /\ before = Held(NewWallet)
  /\ factory = NewWalletFactory
  /\ heap = <<>>
  /\ callee = NoRef
  /\ spl = NewSpl
  /\ txs = <<>>
  /\ submitted = <<>>
  /\ splLast = NoSplCall
  /\ calls = <<>>
  /\ accounts = {}
  /\ uploads = <<>>

\* No phrase is being normalized
NormalizeIdle ==
  /\ phrase = <<>>
  /\ normalized = <<>>

Init ==
  /\ WalletInit
  /\ NormalizeIdle

\* new Wallet(): the holder starts over with a fresh instance
NewInstance ==
  /\ wallet' = NewWallet
  /\ last' = NoCall
  /\ UNCHANGED nonWalletVars

\* wallet.create(pass, path) with the arguments drawn from the given sets
CreateWith(passes, paths) ==
  \E generated \in ValidMnemonics, pass \in passes, path \in paths :
    LET r == create(wallet, generated, pass, path)
    IN  /\ wallet' = r.self
        /\ last' = Call("create", r.threw, None, pass, path, None)
        /\ UNCHANGED nonWalletVars

RestoreFromMnemonicWith(mnemonics, passes, paths) ==
  \E mnemonic \in mnemonics, pass \in passes, path \in paths :
    LET r == restoreFromMnemonic(wallet, mnemonic, pass, path)
    IN  /\ wallet' = r.self
        /\ last' = Call("restoreFromMnemonic", r.threw, Some(mnemonic), pass, path, None)
        /\ UNCHANGED nonWalletVars

RestoreFromSeedWith(seeds) ==
  \E seed \in seeds :
    LET r == restoreFromSeed(wallet, seed)
    IN  /\ wallet' = r.self
        /\ last' = Call("restoreFromSeed", r.threw, None, None, None, Some(seed))
        /\ UNCHANGED nonWalletVars

RestoreFromPrivateKeyWith(keys) ==
  \E key \in keys :
    LET r == restoreFromPrivateKey(wallet, key)
    IN  /\ wallet' = r.self
        /\ last' = Call("restoreFromPrivateKey", r.threw, None, None, None, Some(key))
        /\ UNCHANGED nonWalletVars

Construct ==
  /\ NewInstance
  /\ UNCHANGED before

Create ==
  /\ CreateWith(PassInputs, PathInputs)
  /\ UNCHANGED before

RestoreFromMnemonic ==
  /\ RestoreFromMnemonicWith(MnemonicInputs, PassInputs, PathInputs)
  /\ UNCHANGED before

RestoreFromSeed ==
  /\ RestoreFromSeedWith(SeedInputs)
  /\ UNCHANGED before

RestoreFromPrivateKey ==
  /\ RestoreFromPrivateKeyWith(PrivateKeyInputs)
  /\ UNCHANGED before

Next ==
  \/ Construct
  \/ Create
  \/ RestoreFromMnemonic
  \/ RestoreFromSeed
  \/ RestoreFromPrivateKey

Spec == Init /\ [][Next]_vars

\* ------------------------------------------------------------------------
\* _normalizeMnemonic on every phrase up to a length
\* ------------------------------------------------------------------------
\* "a", "A", " " and "\t"
PhraseChars == {97, 65} \cup WhiteSpace

MaxPhraseLen == 4

Phrases == UNION { [1..n -> PhraseChars] : n \in 0..MaxPhraseLen }

NormalizeInit ==
  /\ WalletInit
  /\ phrase \in Phrases
  /\ normalized = <<>>

\* this._normalizeMnemonic(phrase)
Normalize ==
  /\ normalized = <<>>
  /\ normalized' = <<_normalizeMnemonic(phrase)>>
  /\ UNCHANGED <<phrase, nonNormalizeVars>>

\* the result handed to _normalizeMnemonic again
Renormalize ==
  /\ Len(normalized) = 1
  /\ normalized' = Append(normalized, _normalizeMnemonic(normalized[1]))
  /\ UNCHANGED <<phrase, nonNormalizeVars>>

NormalizeNext ==
  \/ Normalize
  \/ Renormalize

SpecNormalize == NormalizeInit /\ [][NormalizeNext]_vars

\* ------------------------------------------------------------------------
\* One instance reused for one identity after another: every call records
\* what the instance held when it was made
\* ------------------------------------------------------------------------
\* omitted and "pw"
ReusePassInputs == { None, Some(<<112, 119>>) }

\* omitted and m/44'/501'/0'
ReusePathInputs == { None, Some(PathBip44) }

\* "a b", " a\tb", "a a" (bad checksum) and "A  b " (an uppercase word)
ReuseMnemonicInputs ==
  { <<97, 32, 98>>, <<32, 97, 9, 98>>, <<97, 32, 97>>, <<65, 32, 32, 98, 32>> }

\* SeedInputs and a 33-byte seed
ReuseSeedInputs == SeedInputs \cup { [i \in 1..(SeedBytes + 1) |-> 8] }

\* PrivateKeyInputs and a well-formed key of another seed followed by one
\* more byte
ReusePrivateKeyInputs ==
  PrivateKeyInputs \cup { fromSeedSecretKey([i \in 1..SeedBytes |-> 5]) \o <<0>> }

ReuseConstruct ==
  /\ NewInstance
  /\ before' = Held(NewWallet)

ReuseCreate ==
  /\ CreateWith(ReusePassInputs, ReusePathInputs)
  /\ before' = Held(wallet)

ReuseRestoreFromMnemonic ==
  /\ RestoreFromMnemonicWith(ReuseMnemonicInputs, ReusePassInputs, ReusePathInputs)
  /\ before' = Held(wallet)

ReuseRestoreFromSeed ==
  /\ RestoreFromSeedWith(ReuseSeedInputs)
  /\ before' = Held(wallet)

ReuseRestoreFromPrivateKey ==
  /\ RestoreFromPrivateKeyWith(ReusePrivateKeyInputs)
  /\ before' = Held(wallet)

ReuseNext ==
  \/ ReuseConstruct
  \/ ReuseCreate
  \/ ReuseRestoreFromMnemonic
  \/ ReuseRestoreFromSeed
  \/ ReuseRestoreFromPrivateKey

SpecReuse == Init /\ [][ReuseNext]_vars

\* ------------------------------------------------------------------------
\* A caller that holds a wallet and the factory, and writes to the objects
\* their derivationPaths accessors return
\* ------------------------------------------------------------------------
\* get derivationPaths, of Wallet and of WalletFactory: the object itself
derivationPaths(self) == self._derivationPaths

\* paths.name = path, on an object the caller holds
SetProperty(paths, name, path) ==
  [n \in DOMAIN paths \cup {name} |-> IF n = name THEN path ELSE paths[n]]

\* the default's name and a name the table does not have
WrittenNames == {"bip44Change", "mine"}

\* m/44'/501'/0' and the raw path of another account
WrittenPaths == {PathBip44, AccountPath(1)}

CallerConstruct ==
  /\ NewInstance
  /\ UNCHANGED before

CallerCreate ==
  /\ CreateWith({None}, {None, Some(PathBip44)})
  /\ UNCHANGED before

\* wallet.derivationPaths[name] = path
WriteWalletPaths ==
  \E name \in WrittenNames, path \in WrittenPaths :
    /\ wallet' = [wallet EXCEPT !._derivationPaths =
                    SetProperty(derivationPaths(wallet), name, path)]
    /\ UNCHANGED <<last, before, nonWalletVars>>

\* factory.derivationPaths[name] = path
WriteFactoryPaths ==
  \E name \in WrittenNames, path \in WrittenPaths :
    /\ factory' = [factory EXCEPT !._derivationPaths =
                     SetProperty(derivationPaths(factory), name, path)]
    /\ UNCHANGED <<walletVars, before, heapVars, splVars, normalizeVars,
                   clusterVars>>

CallerNext ==
  \/ CallerConstruct
  \/ CallerCreate
  \/ WriteWalletPaths
  \/ WriteFactoryPaths

SpecCaller == Init /\ [][CallerNext]_vars

\* ------------------------------------------------------------------------
\* Several callers of the exported WalletFactory, each holding the wallets
\* it was returned; calls are synchronous, so they interleave as whole calls
\* ------------------------------------------------------------------------
MaxWallets == 2

\* a factory that keeps one Wallet and hands it to every caller
Allocate_Shared(objects) ==
  [ heap |-> IF objects = <<>> THEN <<NewWallet>> ELSE objects, id |-> 1 ]

\* new Wallet(): a new object, under a reference no caller holds
Allocate(objects) ==
  [ heap |-> Append(objects, NewWallet), id |-> Len(objects) + 1 ]

\* return new Wallet().op(...): the caller holds the object when op returned
FactoryReturn(a, r) ==
  /\ heap' = IF r.threw THEN heap ELSE [a.heap EXCEPT ![a.id] = r.self]
  /\ callee' = IF r.threw THEN NoRef ELSE [id |-> a.id, by |-> "factory"]
  /\ UNCHANGED nonHeapVars

\* WalletFactory.create(pass, derivedPath)
FactoryCreate ==
  /\ Len(heap) < MaxWallets
  /\ \E generated \in ValidMnemonics :
       LET a == Allocate(heap)
       IN  FactoryReturn(a, create(a.heap[a.id], generated, None, None))

\* WalletFactory.restoreFromMnemonic(mnemonic, pass, derivedPath)
FactoryRestoreFromMnemonic ==
  /\ Len(heap) < MaxWallets
  /\ \E mnemonic \in {<<97, 32, 98>>, <<97, 32, 97>>} :
       LET a == Allocate(heap)
       IN  FactoryReturn(a, restoreFromMnemonic(a.heap[a.id], mnemonic, None, None))

\* WalletFactory.restoreFromSeed(seed)
FactoryRestoreFromSeed ==
  /\ Len(heap) < MaxWallets
  /\ \E seed \in SeedInputs :
       LET a == Allocate(heap)
       IN  FactoryReturn(a, restoreFromSeed(a.heap[a.id], seed))

\* WalletFactory.restoreFromPrivateKey(privateKey)
FactoryRestoreFromPrivateKey ==
  /\ Len(heap) < MaxWallets
  /\ \E key \in {GoodPrivateKey, SubSeq(GoodPrivateKey, 1, SecretKeyBytes - 1)} :
       LET a == Allocate(heap)
       IN  FactoryReturn(a, restoreFromPrivateKey(a.heap[a.id], key))

\* A method of Wallet called on a wallet some caller holds
HolderCall(id, r) ==
  /\ heap' = [heap EXCEPT ![id] = r.self]
  /\ callee' = [id |-> id, by |-> "holder"]
  /\ UNCHANGED nonHeapVars

HolderRestoreFromSeed ==
  \E id \in DOMAIN heap, seed \in {GoodSeed} :
    HolderCall(id, restoreFromSeed(heap[id], seed))

HolderRestoreFromMnemonic ==
  \E id \in DOMAIN heap, mnemonic \in {<<98, 32, 97>>, <<97, 32, 97>>} :
    HolderCall(id, restoreFromMnemonic(heap[id], mnemonic, None, Some(PathBip44)))

\* A caller lets go of the wallets: they are collected
HolderRelease ==
  /\ heap # <<>>
  /\ heap' = <<>>
  /\ callee' = NoRef
  /\ UNCHANGED nonHeapVars

FactoryNext ==
  \/ FactoryCreate
  \/ FactoryRestoreFromMnemonic
  \/ FactoryRestoreFromSeed
  \/ FactoryRestoreFromPrivateKey
  \/ HolderRestoreFromSeed
  \/ HolderRestoreFromMnemonic
  \/ HolderRelease

SpecFactory == Init /\ [][FactoryNext]_vars

\* ------------------------------------------------------------------------
\* One Spl instance, the transactions its holder began, and the cluster's
\* record of what was sent. An async method that reaches no network call
\* settles without another call running in between, so it is one step.
\* ------------------------------------------------------------------------
\* omitted, and the three clusters by name
ClusterInputs == {None} \cup { Some(c) : c \in ClusterNames }

\* the keypair objects of two wallets
Signers == {"alice", "bob"}

MaxTxs == 2

MaxInstructions == 2

\* new Spl()
SplConstruct ==
  /\ spl' = NewSpl
  /\ txs' = <<>>
  /\ splLast' = NoSplCall
  /\ UNCHANGED <<submitted, nonSplVars>>

\* spl.connect(cluster)
Connect ==
  \E c \in ClusterInputs :
    LET r == connect(spl, c)
    IN  /\ spl' = r.self
        /\ splLast' = SplCall("connect", c, IF r.threw THEN "threw" ELSE "returned",
                              0, 0, Len(submitted), None)
        /\ UNCHANGED <<txs, submitted, nonSplVars>>

\* SplFactory.create(cluster): return new Spl().connect(cluster)
SplFactoryCreate ==
  \E c \in ClusterInputs :
    LET r == connect(NewSpl, c)
    IN  /\ spl' = IF r.threw THEN spl ELSE r.self
        /\ splLast' = SplCall("create", c, IF r.threw THEN "threw" ELSE "returned",
                              0, 0, Len(submitted), None)
        /\ UNCHANGED <<txs, submitted, nonSplVars>>

\* tx = spl.beginTransaction()
BeginTransaction ==
  /\ Len(txs) < MaxTxs
  /\ txs' = Append(txs, beginTransaction)
  /\ splLast' = SplCall("beginTransaction", None, "returned", Len(txs) + 1, 0,
                        Len(submitted), None)
  /\ UNCHANGED <<spl, submitted, nonSplVars>>

\* await spl.endTransaction(tx)
EndTransaction ==
  \E i \in DOMAIN txs :
    LET rejects == sendAndConfirmTransactionRejects(spl._connection)
    IN  /\ submitted' = IF rejects THEN submitted ELSE Append(submitted, txs[i])
        /\ splLast' = SplCall("endTransaction", None,
                              IF rejects THEN "rejected" ELSE "resolved",
                              i, Len(txs[i].instructions), Len(submitted), None)
        /\ UNCHANGED <<spl, txs, nonSplVars>>

\* The body the three transfer methods share. tx is transferTransaction ||
\* this.beginTransaction(); the arguments of tx.add are evaluated first, so
\* a rejected read of the cluster leaves tx as it was; with a transaction
\* supplied the method returns tx.add's result, without one it awaits
\* this.endTransaction(tx).
Transfer(op, program, readsCluster, i) ==
  \E from \in Signers, to \in Signers :
    LET tx      == IF i = 0 THEN beginTransaction ELSE txs[i]
        added   == AddTransfer(tx, TransferInstruction(program, from, to), from)
        failed  == readsCluster /\ ReadsClusterRejects(spl)
        rejects == sendAndConfirmTransactionRejects(spl._connection)
    IN  /\ from # to
        /\ Len(tx.instructions) < MaxInstructions
        /\ txs' = IF i = 0 \/ failed THEN txs ELSE [txs EXCEPT ![i] = added]
        /\ submitted' = IF i = 0 /\ ~failed /\ ~rejects
                        THEN Append(submitted, added)
                        ELSE submitted
        /\ splLast' = SplCall(op, Some(from),
                              IF failed \/ (i = 0 /\ rejects)
                              THEN "rejected" ELSE "resolved",
                              i, Len(tx.instructions), Len(submitted),
                              IF i # 0 THEN None
                              ELSE IF failed THEN Some(tx) ELSE Some(added))
        /\ UNCHANGED <<spl, nonSplVars>>

\* await spl.transferSol(fromKeypair, toPublicKey, solAmount, tx)
TransferSol ==
  \E i \in {0} \cup DOMAIN txs : Transfer("transferSol", "system", FALSE, i)

\* await spl.transferToken(token, fromKeypair, toKeypair, amount, tx)
TransferToken ==
  \E i \in {0} \cup DOMAIN txs : Transfer("transferToken", "token", TRUE, i)

\* await spl.rawTransferToken(token, walletKeypair, from, to, amount, tx)
RawTransferToken ==
  \E i \in {0} \cup DOMAIN txs : Transfer("rawTransferToken", "token", TRUE, i)

SplNext ==
  \/ SplConstruct
  \/ Connect
  \/ SplFactoryCreate
  \/ BeginTransaction
  \/ EndTransaction
  \/ TransferSol
  \/ TransferToken
  \/ RawTransferToken

SpecSpl == Init /\ [][SplNext]_vars

\* ------------------------------------------------------------------------
\* SpecKeygen: generateKeypair on an Spl instance, next to the calls that
\* make and connect the instance.
\* ------------------------------------------------------------------------
\* how many keypairs Keypair.generate() gives a call at most
MaxGenerated == 2

\* the keypairs Keypair.generate() can return: their addresses start with
\* "Y", with "g" and with "E"
GeneratedKeypairs ==
  { KeypairFromSeed(GoodSeed), fromSecretKey(GoodPrivateKey),
    KeypairFromSeed([i \in 1..SeedBytes |-> 200]) }

GeneratedInputs == [1..MaxGenerated -> GeneratedKeypairs]

\* omitted, "", "Y", "g", "E", and "Z", which no generated address starts
\* with
PrefixInputs ==
  { None, Some(<<>>), Some(<<89>>), Some(<<103>>), Some(<<69>>), Some(<<90>>) }

\* spl.generateKeypair(prefix)
GenerateKeypair ==
  \E generated \in GeneratedInputs, prefix \in PrefixInputs :
    LET r == generateKeypair(generated, prefix)
    IN  /\ splLast' = SplCall("generateKeypair",
                              Some([prefix |-> prefix, generated |-> generated]),
                              IF r.threw THEN "threw" ELSE "returned",
                              0, 0, Len(submitted), r.keypair)
        /\ UNCHANGED <<spl, txs, submitted, nonSplVars>>

KeygenNext ==
  \/ SplConstruct
  \/ Connect
  \/ GenerateKeypair

SpecKeygen == Init /\ [][KeygenNext]_vars

\* ------------------------------------------------------------------------
\* SpecMemo: transferData on the transactions the holder of an Spl instance
\* began, and without a transaction.
\* ------------------------------------------------------------------------
MemoData == {"gm", "paid"}

\* await spl.transferData(keypair, data, tx)
TransferData ==
  \E i \in {0} \cup DOMAIN txs, keypair \in Signers, data \in MemoData :
    LET tx == IF i = 0 THEN beginTransaction ELSE txs[i]
        r  == transferData(tx, keypair, data)
    IN  /\ Len(tx.instructions) < MaxInstructions
        /\ txs' = IF i = 0 THEN txs ELSE [txs EXCEPT ![i] = r.tx]
        /\ submitted' = IF r.sent THEN Append(submitted, r.tx) ELSE submitted
        /\ splLast' = SplCall("transferData",
                              Some([keypair |-> keypair, data |-> data]),
                              r.outcome, i, Len(tx.instructions), Len(submitted),
                              IF i # 0 THEN None ELSE Some(r.tx))
        /\ UNCHANGED <<spl, nonSplVars>>

MemoNext ==
  \/ SplConstruct
  \/ Connect
  \/ BeginTransaction
  \/ TransferData

SpecMemo == Init /\ [][MemoNext]_vars

\* ------------------------------------------------------------------------
\* SpecAccounts: calls of getOrCreateTokenAccount on one Spl instance, each
\* resumed one await at a time in any order, and a cluster on which other
\* clients create accounts.
\* ------------------------------------------------------------------------
Tokens == {"mintA", "mintB"}

MaxCalls == 2

\* the token accounts of the wallets
Addresses == { getAssociatedTokenAddress(t, w) : t \in Tokens, w \in Signers }

\* spl.getOrCreateTokenAccount(wallet, token), up to its first await
CallGetOrCreateTokenAccount ==
  \E w \in Signers, t \in Tokens :
    /\ Len(calls) < MaxCalls
    /\ calls' = Append(calls, getOrCreateTokenAccount(w, t,
                         { j \in DOMAIN calls : ~Settled(calls[j]) },
                         accountExists(accounts, getAssociatedTokenAddress(t, w))))
    /\ UNCHANGED <<accounts, uploads, splVars, nonClusterVars>>

\* the event loop resumes a call that awaits
ResumeCall ==
  \E k \in DOMAIN calls :
    LET r == ResumeGetOrCreateTokenAccount(spl, calls[k], accounts, Len(submitted))
    IN  /\ calls[k].op = "getOrCreateTokenAccount"
        /\ ~Settled(calls[k])
        /\ calls' = [calls EXCEPT ![k] = r.call]
        /\ submitted' = IF r.sends = None THEN submitted
                        ELSE Append(submitted, Get(r.sends))
        /\ accounts' = accounts \cup r.creates
        /\ UNCHANGED <<uploads, spl, txs, splLast, nonClusterVars>>

\* another client of the cluster creates a token account
AccountAppears ==
  \E a \in Addresses \ accounts :
    /\ accounts' = accounts \cup {a}
    /\ UNCHANGED <<calls, uploads, splVars, nonClusterVars>>

AccountsNext ==
  \/ Connect
  \/ CallGetOrCreateTokenAccount
  \/ ResumeCall
  \/ AccountAppears

SpecAccounts == Init /\ [][AccountsNext]_vars

\* ------------------------------------------------------------------------
\* SpecNft: calls of createNft and of the two mintAndUploadNft of the file
\* on one Spl instance, each resumed one await at a time in any order.
\* ------------------------------------------------------------------------
\* nftKeypair omitted, and a keypair for the mint
NftKeypairs == { None, Some("nft") }

Files == {"art.png"}

\* arweaveWallet omitted, and a wallet key
ArweaveWallets == { None, Some("jwk") }

\* what Arweave answers a post with: accepted, refused, accepted without id
ArweaveResponses ==
  { [ status |-> 200, id |-> Some("tx1") ],
    [ status |-> 400, id |-> None ],
    [ status |-> 200, id |-> None ] }

\* spl.createNft(owner, nftKeypair), up to its first await
CallCreateNft ==
  \E owner \in Signers, nft \in NftKeypairs :
    /\ Len(calls) < MaxCalls
    /\ calls' = Append(calls, createNft(owner, nft))
    /\ UNCHANGED <<accounts, uploads, splVars, nonClusterVars>>

\* the event loop resumes a createNft call
CreateNftResumes ==
  \E k \in DOMAIN calls :
    LET r == ResumeCreateNft(spl, calls[k], accounts, Len(submitted))
    IN  /\ calls[k].op = "createNft"
        /\ ~Settled(calls[k])
        /\ calls' = [calls EXCEPT ![k] = r.call]
        /\ submitted' = submitted \o r.sends
        /\ accounts' = accounts \cup r.creates
        /\ UNCHANGED <<uploads, spl, txs, splLast, nonClusterVars>>

\* spl.mintAndUploadNft(owner, filePath, name, symbol, other, arweaveWallet)
\* of the first class of the file, up to its first await
CallMintAndUploadNft ==
  \E owner \in Signers, file \in Files, w \in ArweaveWallets :
    /\ Len(calls) < MaxCalls
    /\ calls' = Append(calls, mintAndUploadNft(owner, file, w))
    /\ UNCHANGED <<accounts, uploads, splVars, nonClusterVars>>

\* the event loop resumes such a call
MintAndUploadNftResumes ==
  \E k \in DOMAIN calls :
    /\ calls[k].op = "mintAndUploadNft"
    /\ ~Settled(calls[k])
    /\ calls' = [calls EXCEPT ![k] = ResumeMintAndUploadNft(calls[k])]
    /\ UNCHANGED <<accounts, uploads, splVars, nonClusterVars>>

\* spl.mintAndUploadNft(owner, filePath, metadata, arweaveWallet) of the
\* second class of the file, up to its first await
CallMintAndUploadNftSecond ==
  \E owner \in Signers, file \in Files, w \in ArweaveWallets :
    /\ Len(calls) < MaxCalls
    /\ calls' = Append(calls, mintAndUploadNftSecond(owner, file, w))
    /\ UNCHANGED <<accounts, uploads, splVars, nonClusterVars>>

\* the event loop resumes such a call
MintAndUploadNftSecondResumes ==
  \E k \in DOMAIN calls, response \in ArweaveResponses :
    LET r == ResumeMintAndUploadNftSecond(calls[k], response)
    IN  /\ calls[k].op = "mintAndUploadNftSecond"
        /\ ~Settled(calls[k])
        /\ calls' = [calls EXCEPT ![k] = r.call]
        /\ uploads' = uploads \o r.posts
        /\ UNCHANGED <<accounts, splVars, nonClusterVars>>

NftNext ==
  \/ Connect
  \/ CallCreateNft
  \/ CreateNftResumes
  \/ CallMintAndUploadNft
  \/ MintAndUploadNftResumes
  \/ CallMintAndUploadNftSecond
  \/ MintAndUploadNftSecondResumes

SpecNft == Init /\ [][NftNext]_vars

\* ------------------------------------------------------------------------
\* Properties
\* ------------------------------------------------------------------------
MnemonicCall == last.op \in {"create", "restoreFromMnemonic"}

\* The phrase the last restoreFromMnemonic call was given, normalized
GivenPhrase == _normalizeMnemonic(Get(last.mnemonic))

\* C1: round trip. After create(p, d) succeeded, restoreFromMnemonic with
\* the created wallet's mnemonic and the same p and d, on a new Wallet and
\* on the created one, succeeds and gives the same keypair (public and
\* private key bytes).
C1_RoundTrip ==
  (last.op = "create" /\ ~last.threw) =>
    \A target \in {NewWallet, wallet} :
      LET r == restoreFromMnemonic(target, Get(wallet._mnemonic), last.pass, last.path)
      IN  /\ ~r.threw
          /\ r.self._keypair = wallet._keypair

\* a wallet created with a passphrase along a path other than the default
C1_Witness ==
  /\ last.op = "create"
  /\ ~last.threw
  /\ last.pass = Some(<<112, 119>>)
  /\ last.path = Some(PathBip44)
  /\ wallet._keypair # None

\* The keypair the derivation would give a phrase if nothing validated it
UncheckedKeypair(mnemonic, pass, path) ==
  KeypairFromSeed(derivePath(path, Some(ToHex(mnemonicToSeedSync(mnemonic, pass)))))

\* C2: restoreFromMnemonic with a phrase that fails the checksum throws, and
\* the wallet exposes no keypair derived from that phrase.
C2_InvalidMnemonicRejected ==
  (last.op = "restoreFromMnemonic" /\ ~validateMnemonic(GivenPhrase)) =>
    /\ last.threw
    /\ \A pass \in PassInputs, path \in {PathBip44, PathBip44Change} :
         wallet._keypair # Some(UncheckedKeypair(GivenPhrase, pass, path))

\* a restoreFromMnemonic call with a bad phrase on a wallet that had a keypair
C2_Witness ==
  /\ last.op = "restoreFromMnemonic"
  /\ ~validateMnemonic(GivenPhrase)
  /\ last.threw
  /\ wallet._keypair # None

\* C3: no partial state on failure. A restoreFromMnemonic, restoreFromSeed
\* or restoreFromPrivateKey call that throws leaves every field of the
\* instance as it was before the call.
C3_NoPartialState ==
  [][ ( /\ last'.threw
        /\ last'.op \in {"restoreFromMnemonic", "restoreFromSeed", "restoreFromPrivateKey"} )
      => wallet' = wallet ]_vars

\* C4: restoreFromMnemonic is deterministic. Whatever the instance held
\* before, a successful call gives the keypair that the same call on a new
\* Wallet (WalletFactory.restoreFromMnemonic) gives.
C4_Deterministic ==
  (last.op = "restoreFromMnemonic" /\ ~last.threw) =>
    LET fresh == WalletFactory_restoreFromMnemonic(Get(last.mnemonic), last.pass, last.path)
    IN  /\ fresh # None
        /\ Get(fresh)._keypair = wallet._keypair

\* a successful restoreFromMnemonic with a passphrase and a path
C4_Witness ==
  /\ last.op = "restoreFromMnemonic"
  /\ ~last.threw
  /\ last.pass = Some(<<112, 119>>)
  /\ last.path = Some(PathBip44)

\* C5 as stated: once an instance has a keypair, no call on the instance
\* changes it.
C5_KeypairNeverChanges ==
  [][(wallet._keypair # None /\ last'.op # "none")
       => wallet'._keypair = wallet._keypair]_vars

\* C5 amended: a call on an instance changes its keypair only when the call
\* is a construction call that succeeds; a call that throws leaves the
\* keypair as it was.
C5_KeypairChangesOnlyOnSuccess ==
  [][(last'.op # "none" /\ wallet'._keypair # wallet._keypair)
       => ~last'.threw]_vars

\* a keypair that survived a construction call that threw
C5_Witness ==
  /\ last.threw
  /\ wallet._keypair # None

\* The three shapes a constructed wallet's fields may have
MnemonicOrigin ==
  /\ wallet._mnemonic # None
  /\ wallet._derivedPath # None
  /\ wallet._seedHex # None
  /\ wallet._seed # None
  /\ \E pass \in PassInputs :
       wallet._seedHex = _mnemonicToSeedHex(Get(wallet._mnemonic), pass)
  /\ ~derivePathThrows(Get(wallet._derivedPath), wallet._seedHex)
  /\ wallet._seed = Some(derivePath(Get(wallet._derivedPath), wallet._seedHex))
  /\ wallet._keypair = Some(KeypairFromSeed(Get(wallet._seed)))

SeedOrigin ==
  /\ wallet._mnemonic = None
  /\ wallet._derivedPath = None
  /\ wallet._seed # None
  /\ ~fromSeedThrows(Get(wallet._seed))
  /\ wallet._keypair = Some(KeypairFromSeed(Get(wallet._seed)))

PrivateKeyOrigin ==
  /\ wallet._mnemonic = None
  /\ wallet._derivedPath = None
  /\ wallet._seed = None
  /\ wallet._seedHex = None

\* C6: the fields of a wallet that has a keypair reflect one derivation
\* origin (mnemonic, raw seed or private key), and the keypair is the one
\* derived from that origin.
C6_OneOrigin ==
  wallet._keypair # None => (MnemonicOrigin \/ SeedOrigin \/ PrivateKeyOrigin)

\* C7: after restoreFromPrivateKey(k) with a well-formed k, the private key
\* the wallet exposes (privateKey, keypair.secretKey) is k, byte for byte.
C7_PrivateKeyKept ==
  (last.op = "restoreFromPrivateKey" /\ ~fromSecretKeyThrows(Get(last.bytes))) =>
    /\ ~last.threw
    /\ privateKey(wallet) = last.bytes
    /\ Get(wallet._keypair).secretKey = Get(last.bytes)

\* a wallet restored from the well-formed key
C7_Witness ==
  /\ last.op = "restoreFromPrivateKey"
  /\ ~last.threw
  /\ last.bytes = Some(GoodPrivateKey)

NamedPaths == {PathDeprecated, PathBip44, PathBip44Change}

\* C8: restoreFromMnemonic with a valid phrase along a named path succeeds,
\* and the same phrase and passphrase along any other named path give a
\* different keypair.
C8_PathsGiveDifferentKeypairs ==
  ( /\ last.op = "restoreFromMnemonic"
    /\ validateMnemonic(GivenPhrase)
    /\ last.path # None ) =>
    /\ ~last.threw
    /\ \A other \in NamedPaths \ last.path :
         LET w == WalletFactory_restoreFromMnemonic(Get(last.mnemonic), last.pass, Some(other))
         IN  /\ w # None
             /\ Get(w)._keypair # wallet._keypair

\* password || "": the passphrase text that enters the salt
PassText(pass) == IF pass = None THEN <<>> ELSE Get(pass)

\* C9: after a successful restoreFromMnemonic, the same phrase and path with
\* a different passphrase give a different seed hex, a different derived
\* seed and a different keypair.
C9_PassphraseChangesSeed ==
  (last.op = "restoreFromMnemonic" /\ ~last.threw) =>
    \A pass \in PassInputs :
      PassText(pass) # PassText(last.pass) =>
        LET w == WalletFactory_restoreFromMnemonic(Get(last.mnemonic), pass, last.path)
        IN  /\ w # None
            /\ Get(w)._seedHex # wallet._seedHex
            /\ Get(w)._seed # wallet._seed
            /\ Get(w)._keypair # wallet._keypair

\* a wallet restored with the empty passphrase
C9_Witness ==
  /\ last.op = "restoreFromMnemonic"
  /\ ~last.threw
  /\ last.pass = Some(<<>>)
  /\ wallet._keypair # None

C13_SeedIdentity ==
  (last.op = "restoreFromSeed" /\ ~last.threw) =>
    /\ wallet._mnemonic = None
    /\ wallet._derivedPath = None
    /\ wallet._seed = last.bytes
    /\ wallet._keypair # None
    /\ SubSeq(Get(wallet._keypair).secretKey, 1, SeedBytes) = Get(last.bytes)
    /\ Get(wallet._keypair).publicKey = Ed25519PublicKey(Get(last.bytes))

\* a successful restoreFromSeed on an instance that held a mnemonic-derived
\* identity
C13_Witness ==
  /\ last.op = "restoreFromSeed"
  /\ ~last.threw
  /\ before.mnemonic
  /\ before.keypair
  /\ wallet._seed = Some(GoodSeed)

\* C14: after restoreFromPrivateKey(k) succeeded only the keypair is
\* populated: mnemonic, derivation path, seed and seed hex are absent,
\* whatever the instance held before.
C14_OnlyKeypair ==
  (last.op = "restoreFromPrivateKey" /\ ~last.threw) =>
    /\ wallet._keypair # None
    /\ Get(wallet._keypair).secretKey = Get(last.bytes)
    /\ wallet._mnemonic = None
    /\ wallet._derivedPath = None
    /\ wallet._seed = None
    /\ wallet._seedHex = None

\* a successful restoreFromPrivateKey on an instance that held a mnemonic,
\* a seed and a keypair
C14_Witness ==
  /\ last.op = "restoreFromPrivateKey"
  /\ ~last.threw
  /\ before.mnemonic
  /\ before.seed
  /\ before.keypair
  /\ wallet._keypair = Some(fromSecretKey(GoodPrivateKey))

\* The first n bytes of a byte array, zero-padded when it is shorter
Fit(bytes, n) == [i \in 1..n |-> IF i <= Len(bytes) THEN bytes[i] ELSE 0]

\* C15: restoreFromSeed with a seed that is not 32 bytes long and
\* restoreFromPrivateKey with a key that is not 64 bytes long throw, the
\* wallet gains no keypair, and the keypair it holds is not one made from
\* the input cut or zero-padded to the expected length.
C15_WrongLengthFails ==
  /\ (last.op = "restoreFromSeed" /\ Len(Get(last.bytes)) # SeedBytes) =>
       /\ last.threw
       /\ (wallet._keypair # None) = before.keypair
       /\ wallet._keypair # None =>
            SubSeq(Get(wallet._keypair).secretKey, 1, SeedBytes)
              # Fit(Get(last.bytes), SeedBytes)
  /\ (last.op = "restoreFromPrivateKey" /\ Len(Get(last.bytes)) # SecretKeyBytes) =>
       /\ last.threw
       /\ (wallet._keypair # None) = before.keypair
       /\ wallet._keypair # None =>
            Get(wallet._keypair).secretKey # Fit(Get(last.bytes), SecretKeyBytes)

\* a restoreFromSeed call with a 33-byte seed on a wallet that held a keypair
C15_Witness ==
  /\ last.op = "restoreFromSeed"
  /\ Len(Get(last.bytes)) = SeedBytes + 1
  /\ last.threw
  /\ before.keypair
  /\ wallet._keypair # None

\* C11: normalization is idempotent: normalizing what _normalizeMnemonic
\* returned for a phrase gives that result again.
C11_NormalizeIdempotent ==
  Len(normalized) = 2 => normalized[2] = normalized[1]

\* " a\tA", a phrase with whitespace at an end and a tab between its words,
\* normalized twice
C11_Witness ==
  /\ phrase = <<32, 97, 9, 65>>
  /\ normalized = << <<97, 32, 65>>, <<97, 32, 65>> >>

\* The words of a phrase: its maximal runs of characters other than whitespace
RECURSIVE Words(_)
Words(s) ==
  IF s = <<>> THEN <<>>
  ELSE IF IsSpace(Head(s)) THEN Words(Tail(s))
  ELSE LET n == CHOOSE k \in 1..Len(s) :
                  /\ \A i \in 1..k : ~IsSpace(s[i])
                  /\ (k = Len(s) \/ IsSpace(s[k + 1]))
       IN  <<SubSeq(s, 1, n)>> \o Words(SubSeq(s, n + 1, Len(s)))

NoOuterWhitespace(s) == s = <<>> \/ (~IsSpace(s[1]) /\ ~IsSpace(s[Len(s)]))

\* every whitespace character is one space between two words
SingleSpaced(s) ==
  \A i \in 1..Len(s) :
    IsSpace(s[i]) => (<<s[i]>> = Space /\ i < Len(s) /\ ~IsSpace(s[i + 1]))

Lowercase(s) == \A i \in 1..Len(s) : ~(s[i] >= 65 /\ s[i] <= 90)

Readable(self) ==
  UNION { self._derivedPath, self._mnemonic, self._seed, self._seedHex,
          publicKey(self), privateKey(self),
          publicKeyString(self), privateKeyString(self),
          json(self).mnemonic, json(self).publicKey, json(self).bn,
          json(self).privateKey,
          { self._derivationPaths[n] : n \in DOMAIN self._derivationPaths } }

\* C16: the passphrase is not stored: in every reachable state nothing a
\* holder can read from the wallet (field, accessor, entry of the json view)
\* is a passphrase that was passed to create or restoreFromMnemonic.
C16_PassphraseNotStored ==
  \A pass \in PassInputs :
    (pass # None /\ Get(pass) # <<>>) => Get(pass) \notin Readable(wallet)

\* a wallet created with the passphrase "pw", its json view fully populated
C16_Witness ==
  /\ last.op = "create"
  /\ last.pass = Some(<<112, 119>>)
  /\ ~last.threw
  /\ json(wallet).mnemonic # None
  /\ json(wallet).privateKey # None
  /\ Len(Get(json(wallet).publicKey)) >= 32

\* The name the specification gives a path of the table
SpecName(n) == IF n = "deprecated" THEN "legacy" ELSE n

\* The named paths a table exposes, as (name, path) pairs
Exposed(paths) == { <<SpecName(n), paths[n]>> : n \in DOMAIN paths }

FixedTable ==
  { <<"legacy", PathDeprecated>>, <<"bip44", PathBip44>>,
    <<"bip44Change", PathBip44Change>> }

\* C17: in every reachable state the derivationPaths accessor of the wallet
\* and that of the factory expose the fixed table of three named paths,
\* whatever the callers did with what the accessors returned.
C17_PathsFixed ==
  /\ Exposed(derivationPaths(wallet)) = FixedTable
  /\ Exposed(derivationPaths(factory)) = FixedTable

\* C18: a WalletFactory call that returns hands out a wallet under a
\* reference no caller held before, and a call, by the factory or on a held
\* wallet, changes no field of any wallet other than the one it returned or
\* was made on.
C18_NoSharedState ==
  [][ /\ callee'.by = "factory" =>
           /\ callee'.id \notin DOMAIN heap
           /\ callee'.id \in DOMAIN heap'
      /\ callee'.by # "none" =>
           \A j \in DOMAIN heap :
             j # callee'.id => (j \in DOMAIN heap' /\ heap'[j] = heap[j]) ]_vars

\* two wallets from the factory, the first of them restored again by its
\* holder after the second was handed out
C18_Witness ==
  /\ Len(heap) = 2
  /\ callee = [id |-> 1, by |-> "holder"]
  /\ heap[1]._keypair # None
  /\ heap[2]._keypair # None
  /\ heap[1]._keypair # heap[2]._keypair
  /\ heap[2]._mnemonic # None

\* C19: after spl.connect(cluster) the call has returned the instance, the
\* instance's cluster is the given one, or devnet when cluster was omitted,
\* its connection is one to that cluster's API URL, and the cluster and
\* connection accessors are both non-null.
C19_ConnectSetsClusterAndConnection ==
  splLast.op = "connect" =>
    /\ splLast.outcome = "returned"
    /\ cluster(spl) = (IF Falsy(splLast.arg) THEN Some("devnet") ELSE splLast.arg)
    /\ connection(spl) # None
    /\ Get(connection(spl)).endpoint = _clusterApiUrls[Get(cluster(spl))]

TransferOps == {"transferSol", "transferToken", "rawTransferToken"}

\* connect was called on the instance with the name of a cluster
ConnectCalled == cluster(spl) # None

\* C20: on an instance connect was called on, after a transfer call with a
\* transaction from beginTransaction supplied, the call has resolved, the
\* transaction has exactly one more instruction and nothing was sent by the
\* call; after a transfer call without a transaction, the call has
\* resolved, it made a transaction of one instruction, and that transaction
\* is the last one sent; and what a resolved endTransaction sent is the
\* transaction it was given.
C20_SubmissionPolicy ==
  ConnectCalled =>
    /\ (splLast.op \in TransferOps /\ splLast.tx # 0) =>
         /\ splLast.outcome = "resolved"
         /\ Len(txs[splLast.tx].instructions) = splLast.count + 1
         /\ Len(submitted) = splLast.sent
    /\ (splLast.op \in TransferOps /\ splLast.tx = 0) =>
         /\ splLast.outcome = "resolved"
         /\ splLast.made # None
         /\ Len(Get(splLast.made).instructions) = 1
         /\ Len(submitted) = splLast.sent + 1
         /\ submitted[Len(submitted)] = Get(splLast.made)
    /\ (splLast.op = "endTransaction" /\ splLast.outcome = "resolved") =>
         /\ Len(submitted) = splLast.sent + 1
         /\ submitted[Len(submitted)] = txs[splLast.tx]

\* an accessor that hands out the seed the phrase stretches to, not the key
\* derived from it along the path
seed_Stretched(self) ==
  IF self._seedHex # None THEN Some(FromHex(Get(self._seedHex))) ELSE self._seed

\* get seed
seed(self) == self._seed

\* C27: for a wallet derived from a mnemonic (create or restoreFromMnemonic
\* succeeded), restoreFromSeed of the wallet's seed on a new Wallet succeeds
\* with the wallet's keypair, and restoreFromPrivateKey of the wallet's
\* private key on a new Wallet succeeds with the wallet's keypair.
C27_SeedAndKeyRecoverIdentity ==
  (MnemonicCall /\ ~last.threw) =>
    /\ seed(wallet) # None
    /\ privateKey(wallet) # None
    /\ LET bySeed == restoreFromSeed(NewWallet, Get(seed(wallet)))
           byKey  == restoreFromPrivateKey(NewWallet, Get(privateKey(wallet)))
       IN  /\ ~bySeed.threw
           /\ bySeed.self._keypair = wallet._keypair
           /\ ~byKey.threw
           /\ byKey.self._keypair = wallet._keypair

\* a wallet restored from a phrase with a passphrase along the bip44 path,
\* whose seed gives a new Wallet a keypair
C27_Witness ==
  /\ last.op = "restoreFromMnemonic"
  /\ ~last.threw
  /\ last.pass = Some(<<112, 119>>)
  /\ last.path = Some(PathBip44)
  /\ seed(wallet) # None
  /\ ~restoreFromSeed(NewWallet, Get(seed(wallet))).threw
  /\ restoreFromSeed(NewWallet, Get(seed(wallet))).self._keypair = wallet._keypair

\* The first keypair of a sequence whose public key string has the prefix
RECURSIVE FirstMatch(_, _)
FirstMatch(keypairs, prefix) ==
  IF keypairs = <<>> THEN None
  ELSE IF startsWith(toBase58(Head(keypairs).publicKey), prefix)
       THEN Some(Head(keypairs))
       ELSE FirstMatch(Tail(keypairs), prefix)

\* C22: generateKeypair without a prefix has returned the first keypair
\* generated; with a non-empty prefix that the address of one of the
\* generated keypairs starts with, it has returned the first generated
\* keypair whose address starts with the prefix.
C22_GenerateKeypairMatchesPrefix ==
  splLast.op = "generateKeypair" =>
    LET prefix    == Get(splLast.arg).prefix
        generated == Get(splLast.arg).generated
    IN  IF prefix = None \/ prefix = Some(<<>>)
        THEN /\ splLast.outcome = "returned"
             /\ splLast.made = Some(generated[1])
        ELSE FirstMatch(generated, Get(prefix)) # None =>
               /\ splLast.outcome = "returned"
               /\ splLast.made = FirstMatch(generated, Get(prefix))

\* C23: after transferData(keypair, data, tx) the call has resolved; with a
\* transaction supplied that transaction has one more instruction, a
\* memo-program instruction carrying data, the keypair is in its signer
\* list exactly once, and the call sent nothing; without one the call made
\* a transaction of that one instruction signed by the keypair and that
\* transaction is the last one sent.
C23_TransferDataAddsMemoAndSigner ==
  splLast.op = "transferData" =>
    LET keypair == Get(splLast.arg).keypair
        data    == Get(splLast.arg).data
        tx      == IF splLast.tx # 0 THEN txs[splLast.tx] ELSE Get(splLast.made)
        last_   == tx.instructions[Len(tx.instructions)]
    IN  /\ splLast.outcome = "resolved"
        /\ Len(tx.instructions) = splLast.count + 1
        /\ last_.program = "memo"
        /\ last_.data = data
        /\ Cardinality({ k \in 1..Len(tx._signers_) : tx._signers_[k] = keypair }) = 1
        /\ IF splLast.tx # 0
           THEN Len(submitted) = splLast.sent
           ELSE /\ Len(submitted) = splLast.sent + 1
                /\ submitted[Len(submitted)] = tx

\* The keypairs of a transaction's signer list
SignerSet(tx) == { tx._signers_[k] : k \in 1..Len(tx._signers_) }

NoSignerTwice(tx) == Cardinality(SignerSet(tx)) = Len(tx._signers_)

\* C26: no transaction from beginTransaction lists a keypair twice; after a
\* transferSol, transferToken or rawTransferToken call on such a
\* transaction its signer list contains the call's signing keypair, and no
\* call takes a keypair off a transaction's list; and after endTransaction
\* the call has resolved and the last transaction sent is the one given,
\* with its signer list.
C26_SignersOfEveryTransfer ==
  /\ [](/\ \A i \in DOMAIN txs : NoSignerTwice(txs[i])
        /\ (splLast.op \in TransferOps /\ splLast.tx # 0) =>
             Get(splLast.arg) \in SignerSet(txs[splLast.tx])
        /\ splLast.op = "endTransaction" =>
             /\ splLast.outcome = "resolved"
             /\ Len(submitted) = splLast.sent + 1
             /\ submitted[Len(submitted)] = txs[splLast.tx]
             /\ submitted[Len(submitted)]._signers_ = txs[splLast.tx]._signers_)
  /\ [][\A i \in DOMAIN txs \cap DOMAIN txs' :
          SignerSet(txs[i]) \subseteq SignerSet(txs'[i])]_vars

\* The creation transactions for an address among those the cluster was sent
CreationsOf(address) ==
  { n \in DOMAIN submitted :
      \E i \in DOMAIN submitted[n].instructions :
        /\ submitted[n].instructions[i].program = "associated-token"
        /\ submitted[n].instructions[i].account = address }

SamePair(c, d) == c.wallet = d.wallet /\ c.token = d.token

\* C21: a getOrCreateTokenAccount(wallet, token) call that has settled has
\* resolved with the associated token address of the pair, an account that
\* exists by then; with txInfo null it sent no transaction; otherwise
\* txInfo is the result of the one transaction it sent, the creation of
\* that account signed by the wallet; when the account existed as the call
\* was made txInfo is null; and a call made after an earlier call for the
\* same pair had settled has resolved with the same address and txInfo
\* null.
C21_GetOrCreateReturnsAccount ==
  \A k \in DOMAIN calls :
    Settled(calls[k]) =>
      LET c       == calls[k]
          address == getAssociatedTokenAddress(c.token, c.wallet)
      IN  /\ c.pc = "resolved"
          /\ c.address = Some(address)
          /\ address \in accounts
          /\ c.existed => c.txInfo = None
          /\ IF c.txInfo = None
             THEN c.sent = 0
             ELSE /\ c.txInfo = Some(c.sent)
                  /\ submitted[c.sent] = CreateAccountTransaction(address, c.wallet, c.token)
          /\ \A j \in 1..(k - 1) :
               (SamePair(calls[j], c) /\ j \notin c.overlap) =>
                 /\ c.address = calls[j].address
                 /\ c.txInfo = None

\* C28: of two getOrCreateTokenAccount calls for the same wallet and token,
\* the second made while the first was in flight and the account did not
\* exist, once both have settled both have resolved with the same address,
\* and at most one creation transaction for that address was sent.
C28_ConcurrentCallsCreateOnce ==
  \A j \in DOMAIN calls, k \in DOMAIN calls :
    ( /\ j \in calls[k].overlap
      /\ SamePair(calls[j], calls[k])
      /\ ~calls[j].existed /\ ~calls[k].existed
      /\ Settled(calls[j]) /\ Settled(calls[k]) ) =>
        /\ calls[j].pc = "resolved"
        /\ calls[k].pc = "resolved"
        /\ calls[j].address # None
        /\ calls[j].address = calls[k].address
        /\ Cardinality(CreationsOf(
             getAssociatedTokenAddress(calls[k].token, calls[k].wallet))) <= 1

\* C24: a createNft(owner, nftKeypair) call that has settled has resolved;
\* the cluster was sent, in this order, the creation of a zero-decimal mint
\* owned by the owner, the mint of exactly one unit of it to the owner's
\* token account, and the setting of the mint authority of that mint; and
\* the returned tokenTx, mintTx and authorityTx are the results of these
\* three transactions.
C24_CreateNftThreeSteps ==
  \A k \in DOMAIN calls :
    (calls[k].op = "createNft" /\ Settled(calls[k])) =>
      /\ calls[k].pc = "resolved"
      /\ calls[k].result # None
      /\ LET c == calls[k]
             r == Get(c.result)
         IN  \E a \in DOMAIN submitted, b \in DOMAIN submitted, d \in DOMAIN submitted :
               /\ a < b /\ b < d
               /\ submitted[a] = CreateMintTransaction(c.owner, r.token, 0, FALSE)
               /\ submitted[b] = MintToTransaction(r.token,
                                   getAssociatedTokenAddress(r.token, c.owner), c.owner, 1)
               /\ \E i \in DOMAIN submitted[d].instructions :
                    /\ submitted[d].instructions[i].program = "token"
                    /\ submitted[d].instructions[i].kind = "setAuthority"
                    /\ submitted[d].instructions[i].mint = r.token
               /\ r.tokenTx = Some(a)
               /\ r.mintTx = Some(b)
               /\ r.authorityTx = Some(d)

\* an upload that did not succeed: a status other than 200, or no id
UploadFailed(response) == response.status # 200 \/ response.id = None

\* C25: a mintAndUploadNft call that has settled has minted only if its
\* metadata upload and its file upload both succeeded, the minted NFT's uri
\* being the URL of the uploaded file; and if one of its uploads failed it
\* has resolved with that upload's response and minted nothing.
C25_MintOnlyAfterUploads ==
  \A k \in DOMAIN calls :
    (calls[k].op \in {"mintAndUploadNft", "mintAndUploadNftSecond"}
       /\ Settled(calls[k])) =>
      LET c == calls[k]
      IN  /\ c.minted # None =>
                /\ c.metadata # None /\ ~UploadFailed(Get(c.metadata))
                /\ c.upload # None /\ ~UploadFailed(Get(c.upload))
                /\ Get(c.minted).uri = Get(Get(c.upload).id)
          /\ (c.metadata # None /\ UploadFailed(Get(c.metadata))) =>
                /\ c.pc = "resolved"
                /\ c.value = c.metadata
                /\ c.minted = None
          /\ (c.upload # None /\ UploadFailed(Get(c.upload))) =>
                /\ c.pc = "resolved"
                /\ c.value = c.upload
                /\ c.minted = None

====
